---------------------------- MODULE Spec2Model ----------------------------
(***************************************************************************)
(* Model of the content-notify Telegram gateway (telegram-bot/src):        *)
(*   - routes.py                  the inbound relay endpoint and /health   *)
(*   - handlers/subscription.py   the identity cache and /add /list /remove*)
(*   - services/core_client.py    the Core Service client, error mapping   *)
(*                                                                         *)
(* Text that the code inspects character by character (chat ids, command   *)
(* text, URLs) is a sequence of one-character strings; text that is only   *)
(* compared or passed on (secrets, messages) is a string.                  *)
(***************************************************************************)
EXTENDS Integers, Sequences, FiniteSets, TLC

(***************************************************************************)
(* Text helpers (Python str methods used by the code).                     *)
(***************************************************************************)
Digits == <<"0", "1", "2", "3", "4", "5", "6", "7", "8", "9">>

DigitChars == {Digits[i] : i \in 1..Len(Digits)}

Whitespace == {" ", "\t", "\n"}

DigitVal(c) == (CHOOSE i \in 1..Len(Digits) : Digits[i] = c) - 1

RECURSIVE lstrip(_)
lstrip(s) ==
    IF s # <<>> /\ Head(s) \in Whitespace THEN lstrip(Tail(s)) ELSE s

RECURSIVE rstrip(_)
rstrip(s) ==
    IF s # <<>> /\ s[Len(s)] \in Whitespace
    THEN rstrip(SubSeq(s, 1, Len(s) - 1))
    ELSE s

\* str.strip()
strip(s) == rstrip(lstrip(s))

Range(s) == {s[i] : i \in 1..Len(s)}

(***************************************************************************)
(* JSON values as Python sees them after json.loads: t is the Python type, *)
(* s the characters of a str, n the number of an int or bool, the tenths   *)
(* of a finite float, or the length of a list or dict.                     *)
(***************************************************************************)
J(t, s, n) == [t |-> t, s |-> s, n |-> n]

PyNone == J("None", <<>>, 0)
JStr(s) == J("str", s, 0)
JInt(n) == J("int", <<>>, n)
JBool(b) == J("bool", <<>>, IF b THEN 1 ELSE 0)
JFloat(tenths) == J("float", <<>>, tenths)
JInf == J("inf", <<>>, 0)
JNaN == J("nan", <<>>, 0)
JList(len) == J("list", <<>>, len)
JDict(len) == J("dict", <<>>, len)

\* Python truthiness, as used by `if not chat_id` and `if not message`.
Truthy(v) ==
    CASE v.t = "None" -> FALSE
      [] v.t = "str" -> Len(v.s) > 0
      [] v.t \in {"int", "bool", "float", "list", "dict"} -> v.n # 0
      [] v.t \in {"inf", "nan"} -> TRUE

\* The value of a run of digits and underscores, underscores skipped.
RECURSIVE DigitsValue(_, _)
DigitsValue(s, acc) ==
    IF s = <<>> THEN acc
    ELSE IF Head(s) = "_" THEN DigitsValue(Tail(s), acc)
    ELSE DigitsValue(Tail(s), 10 * acc + DigitVal(Head(s)))

\* Python's grammar of int(str): digits, single underscores between digits.
IsDigitRun(s) ==
    /\ s # <<>>
    /\ Range(s) \subseteq DigitChars \cup {"_"}
    /\ s[1] # "_"
    /\ s[Len(s)] # "_"
    /\ \A i \in 1..(Len(s) - 1) : ~(s[i] = "_" /\ s[i + 1] = "_")

\* int(x) for a str x: [ok, n, exc].
IntOfStr(chars) ==
    LET b == strip(chars)
        signed == b # <<>> /\ Head(b) \in {"+", "-"}
        body == IF signed THEN Tail(b) ELSE b
    IN  IF IsDigitRun(body)
        THEN [ok |-> TRUE,
              n |-> IF signed /\ Head(b) = "-"
                    THEN 0 - DigitsValue(body, 0)
                    ELSE DigitsValue(body, 0),
              exc |-> ""]
        ELSE [ok |-> FALSE, n |-> 0, exc |-> "ValueError"]

\* Truncation toward zero of a float given in tenths.
Trunc10(tenths) ==
    IF tenths >= 0 THEN tenths \div 10 ELSE 0 - ((0 - tenths) \div 10)

\* A conversion that takes decimal digits only, as str.isdigit() would.
py_int_isdigit(v) ==
    IF v.t = "str" /\ v.s # <<>> /\ Range(v.s) \subseteq DigitChars
    THEN [ok |-> TRUE, n |-> DigitsValue(v.s, 0), exc |-> ""]
    ELSE [ok |-> FALSE, n |-> 0, exc |-> "ValueError"]

\* Python's int(v): the integer, or the exception it raises.
py_int(v) ==
    CASE v.t = "str" -> IntOfStr(v.s)
      [] v.t \in {"int", "bool"} -> [ok |-> TRUE, n |-> v.n, exc |-> ""]
      [] v.t = "float" -> [ok |-> TRUE, n |-> Trunc10(v.n), exc |-> ""]
      [] v.t = "inf" -> [ok |-> FALSE, n |-> 0, exc |-> "OverflowError"]
      [] v.t = "nan" -> [ok |-> FALSE, n |-> 0, exc |-> "ValueError"]
      [] v.t \in {"None", "list", "dict"} ->
            [ok |-> FALSE, n |-> 0, exc |-> "TypeError"]


(***************************************************************************)
(* State.                                                                  *)
(***************************************************************************)
VARIABLES
    internal_service_key,   \* settings.internal_service_key (config.py)
    relay,                  \* the last request served by the internal API
    user_accounts,          \* the identity cache (subscription.py)
    handlers,               \* the command handlers in flight
    started,                \* history: commands dispatched so far
    regCalls,               \* history: register_user calls issued, per user
    regOk,                  \* history: register_user calls that returned
    returned,               \* history: the accounts register_user has
                            \* returned, per user
    lastReg,                \* history: the last call that returned: the
                            \* account it returned, the username it sent
    channel                 \* a channel URL and what validate_url and
                            \* extract_channel_name make of it

vars == <<internal_service_key, relay, user_accounts, handlers, started,
          regCalls, regOk, returned, lastReg, channel>>

urlVars == <<channel>>

relayVars == <<internal_service_key, relay>>

cmdVars ==
    <<user_accounts, handlers, started, regCalls, regOk, returned, lastReg>>

(***************************************************************************)
(* The inbound relay endpoint (routes.py).                                 *)
(***************************************************************************)
\* An optional value: Settings.internal_service_key, headers.get(...).
NoValue == [present |-> FALSE, value |-> ""]
Some(x) == [present |-> TRUE, value |-> x]

\* `settings.internal_service_key is None`
KeyIsNone(key) == ~key.present

\* `not settings.internal_service_key`: None, or a SecretStr of length 0.
KeyUnconfigured(key) == ~key.present \/ key.value = ""

\* A comparison that ignores surrounding whitespace.
AuthRejectedStripped(auth_header, expected_key) ==
    \/ ~auth_header.present
    \/ auth_header.value = ""
    \/ auth_header.value \notin {expected_key, expected_key \o " "}

\* `not auth_header or auth_header != expected_key`
AuthRejected(auth_header, expected_key) ==
    \/ ~auth_header.present
    \/ auth_header.value = ""
    \/ auth_header.value # expected_key

\* A key the JSON object does not hold; dict.get turns it into None.
Absent == J("absent", <<>>, 0)

DictGet(v) == IF v = Absent THEN PyNone ELSE v

\* web.json_response(...), or the exception that leaves the handler.
\* sends: the bot.send_message calls made while serving the request.
JsonResponse(status, result, error, detail, sends) ==
    [status |-> status, result |-> result, error |-> error,
     detail |-> detail, raised |-> "", sends |-> sends]

Raised(exc, sends) ==
    [status |-> 0, result |-> "", error |-> "", detail |-> "",
     raised |-> exc, sends |-> sends]

SendMessage(chat_id, text) ==
    [chat_id |-> chat_id, text |-> text, parse_mode |-> "HTML"]

\* A send that is tried a second time when the first one raises.
send_notification_retry(chat_id_int, message, outcome) ==
    IF outcome = "ok"
    THEN JsonResponse(200, "success", "", "Notification sent",
            <<SendMessage(chat_id_int, message)>>)
    ELSE JsonResponse(500, "", "Failed to send message: ", outcome,
            <<SendMessage(chat_id_int, message),
              SendMessage(chat_id_int, message)>>)

\* The last try block of handle_notification: one bot.send_message call,
\* answered 200, or 500 with the exception's text.
send_notification(chat_id_int, message, outcome) ==
    IF outcome = "ok"
    THEN JsonResponse(200, "success", "", "Notification sent",
            <<SendMessage(chat_id_int, message)>>)
    ELSE JsonResponse(500, "", "Failed to send message: ", outcome,
            <<SendMessage(chat_id_int, message)>>)

\* handle_notification: key is the configured secret, auth_header the
\* X-Internal-Service-Key header, body the request body, outcome what
\* bot.send_message does if it is called ("ok" or the exception's text).
handle_notification(key, auth_header, body, outcome) ==
    IF KeyUnconfigured(key)
    THEN JsonResponse(500, "",
            "Internal service authentication not configured", "", <<>>)
    ELSE IF AuthRejected(auth_header, key.value)
    THEN JsonResponse(403, "", "Forbidden: Invalid authentication key", "",
            <<>>)
    ELSE IF body.kind = "notjson"
    THEN JsonResponse(400, "", "Invalid JSON body", "", <<>>)
    ELSE IF body.kind # "object"
    THEN Raised("AttributeError", <<>>)
    ELSE
      LET chat_id == DictGet(body.chatId)
          message == DictGet(body.message)
          chat_id_int == py_int(chat_id)
      IN  IF ~Truthy(chat_id)
          THEN JsonResponse(400, "", "Missing required field: chatId", "",
                  <<>>)
          ELSE IF ~Truthy(message)
          THEN JsonResponse(400, "", "Missing required field: message", "",
                  <<>>)
          ELSE IF ~chat_id_int.ok
                  /\ chat_id_int.exc \in {"ValueError", "TypeError"}
          THEN JsonResponse(400, "",
                  "Invalid chatId format: must be numeric", "", <<>>)
          ELSE IF ~chat_id_int.ok
          THEN Raised(chat_id_int.exc, <<>>)
          ELSE send_notification(chat_id_int.n, message, outcome)

\* health_check
health_check == JsonResponse(200, "healthy", "", "telegram-bot", <<>>)


(***************************************************************************)
(* Requests the relay endpoint is driven with.                             *)
(***************************************************************************)
\* INTERNAL_SERVICE_KEY: unset, set to the empty string, set to a secret.
Keys == {NoValue, Some(""), Some("s3cret")}

\* X-Internal-Service-Key: missing, empty, the secret, and near misses.
Headers == {NoValue, Some(""), Some("s3cret"), Some("S3CRET"), Some("s3cret ")}

ChatIds ==
    {Absent, PyNone, JStr(<<>>), JStr(<<"1", "2", "3">>), JStr(<<" ", "4",
        "2", " ">>),
     JStr(<<"-", "7">>), JStr(<<"1", "_", "0">>), JStr(<<"1", "2", "a">>),
         JStr(<<"1", ".", "5">>),
     JInt(0), JInt(55), JFloat(0), JFloat(19), JFloat(0 - 19), JInf, JNaN,
     JBool(TRUE), JBool(FALSE), JList(0), JList(1), JDict(0), JDict(1)}

Messages == {Absent, PyNone, JStr(<<>>), JStr(<<"l", "i", "v", "e">>)}

Bodies ==
    {[kind |-> "notjson", chatId |-> Absent, message |-> Absent],
     [kind |-> "nonobject", chatId |-> Absent, message |-> Absent]}
    \cup [kind : {"object"}, chatId : ChatIds, message : Messages]

\* What bot.send_message does: it returns, or raises.
Outcomes == {"ok", "Forbidden: bot was blocked by the user"}

NoRequest ==
    [route |-> "none", auth_header |-> NoValue,
     body |-> [kind |-> "notjson", chatId |-> Absent, message |-> Absent],
     outcome |-> "ok", response |-> Raised("", <<>>)]

\* POST /internal/send: the request is served to its response.
Notify(auth_header, body, outcome) ==
    /\ relay.route = "none"
    /\ relay' = [route |-> "/internal/send", auth_header |-> auth_header,
                 body |-> body, outcome |-> outcome,
                 response |-> handle_notification(internal_service_key,
                                  auth_header, body, outcome)]
    /\ UNCHANGED <<internal_service_key, cmdVars, urlVars>>

\* GET /health
Health ==
    /\ relay.route = "none"
    /\ relay' = [NoRequest EXCEPT !.route = "/health",
                                  !.response = health_check]
    /\ UNCHANGED <<internal_service_key, cmdVars, urlVars>>

\* The response has gone out; the endpoint keeps nothing of the request.
Responded ==
    /\ relay.route # "none"
    /\ relay' = NoRequest
    /\ UNCHANGED <<internal_service_key, cmdVars, urlVars>>


(***************************************************************************)
(* The Core Service client (services/core_client.py).                      *)
(***************************************************************************)
\* A message text: a fixed text, or f"HTTP {status} error" with its status.
Msg(text) == [text |-> text, n |-> 0]
HttpMsg(status) == [text |-> "HTTP {status} error", n |-> status]

UnavailableMsg == Msg("System is temporarily unavailable, please try again later")
UnexpectedMsg == Msg("An unexpected error occurred")

\* CoreAPIError(message, status_code=None)
CoreAPIError(message, status_code) ==
    [message |-> message, status_code |-> status_code]

NoStatus == [present |-> FALSE, value |-> 0]

\* What a client method does: it returns value, or raises err.
Returns(value) ==
    [ok |-> TRUE, value |-> value, err |-> CoreAPIError(Msg(""), NoStatus)]
Raises(err) == [ok |-> FALSE, value |-> PyNone, err |-> err]

\* The body of an error response: not JSON, or a JSON object with or
\* without a "message" field.
NotJson == [json |-> FALSE, message |-> NoValue]
JsonBody(message) == [json |-> TRUE, message |-> message]

\* What a ClientResponseError carries (aiohttp.client_exceptions): the
\* request info, the history, the status, the reason text and the headers.
\* It carries no response.
ClientResponseErrorAttrs ==
    {"request_info", "history", "status", "message", "headers"}

\* A mapping that surfaces the body's message whatever the status.
handle_http_error_body(status, body) ==
    CoreAPIError(IF body.json /\ body.message.present
                 THEN Msg(body.message.value) ELSE HttpMsg(status),
                 Some(status))

\* _handle_http_error. The try block reads `error.response.json()`: an
\* attribute the error lacks raises AttributeError, a body that is not
\* JSON raises too, and `except Exception` then builds the message from
\* the status.
handle_http_error(status, body) ==
    LET read == "response" \in ClientResponseErrorAttrs /\ body.json
        error_message ==
            IF ~read THEN HttpMsg(status)
            ELSE IF body.message.present THEN Msg(body.message.value)
            ELSE Msg("Unknown error")
    IN  IF status = 400 THEN CoreAPIError(error_message, Some(status))
        ELSE IF status = 404
        THEN CoreAPIError(Msg("Resource not found"), Some(status))
        ELSE IF status = 409 THEN CoreAPIError(error_message, Some(status))
        ELSE IF status >= 500 THEN CoreAPIError(UnavailableMsg, Some(status))
        ELSE CoreAPIError(error_message, Some(status))

\* The except clauses shared by the four client methods, for a call that
\* got no usable 2xx response. resp.kind is "http" (a response arrived),
\* "ClientError" (aiohttp's network failure) or another exception's name.
request_failed(resp) ==
    IF resp.kind = "http"
    THEN handle_http_error(resp.status, resp.body)
    ELSE IF resp.kind = "ClientError"
    THEN CoreAPIError(UnavailableMsg, NoStatus)
    ELSE CoreAPIError(UnexpectedMsg, NoStatus)

\* response.raise_for_status() raises for a status of 400 and above.
StatusOk(resp) == resp.kind = "http" /\ resp.status < 400

HexChars ==
    DigitChars \cup {"a", "b", "c", "d", "e", "f", "A", "B", "C", "D", "E", "F"}

Lower(c) ==
    CASE c = "A" -> "a" [] c = "B" -> "b" [] c = "C" -> "c"
      [] c = "D" -> "d" [] c = "E" -> "e" [] c = "F" -> "f"
      [] OTHER -> c

\* uuid.UUID(text): hyphens dropped, hex digits lower-cased; ValueError
\* when anything else is left. (Identifiers are shortened in the model.)
UUID(chars) ==
    LET hex == SelectSeq(chars, LAMBDA c : c # "-")
    IN  IF hex # <<>> /\ Range(hex) \subseteq HexChars
        THEN [ok |-> TRUE, value |-> [i \in 1..Len(hex) |-> Lower(hex[i])]]
        ELSE [ok |-> FALSE, value |-> <<>>]

\* A registration that makes up an account when the response has none.
register_user_default(resp) ==
    IF ~StatusOk(resp) THEN Raises(request_failed(resp))
    ELSE IF ~Truthy(DictGet(resp.accountId)) THEN Returns(JStr(<<"0">>))
    ELSE IF ~UUID(DictGet(resp.accountId).s).ok
    THEN Raises(CoreAPIError(UnexpectedMsg, NoStatus))
    ELSE Returns(JStr(UUID(DictGet(resp.accountId).s).value))

\* register_user: resp.accountId is data.get("accountId").
register_user(resp) ==
    IF ~StatusOk(resp) THEN Raises(request_failed(resp))
    ELSE LET account_id == DictGet(resp.accountId)
         IN  IF ~Truthy(account_id)
             \* CoreAPIError("Missing accountId in response") is caught by
             \* the method's own `except Exception` and replaced.
             THEN Raises(CoreAPIError(UnexpectedMsg, NoStatus))
             ELSE IF account_id.t # "str" \/ ~UUID(account_id.s).ok
             THEN Raises(CoreAPIError(UnexpectedMsg, NoStatus))
             ELSE Returns(JStr(UUID(account_id.s).value))

\* add_subscription, get_subscriptions: return the decoded body.
\* delete_subscription: returns None.
add_subscription(resp) ==
    IF StatusOk(resp) THEN Returns(resp.data) ELSE Raises(request_failed(resp))

get_subscriptions(resp) ==
    IF StatusOk(resp) THEN Returns(resp.data) ELSE Raises(request_failed(resp))

delete_subscription(resp) ==
    IF StatusOk(resp) THEN Returns(PyNone) ELSE Raises(request_failed(resp))


(***************************************************************************)
(* Pure helpers of the command handlers (handlers/subscription.py).        *)
(***************************************************************************)
StartsWith(s, p) == Len(s) >= Len(p) /\ SubSeq(s, 1, Len(p)) = p

Drop(s, n) == SubSeq(s, n + 1, Len(s))

\* The least index at which p occurs in s, or 0.
Find(s, p) ==
    LET at == {i \in 1..(Len(s) - Len(p) + 1) : SubSeq(s, i, i + Len(p) - 1) = p}
    IN  IF at = {} THEN 0 ELSE CHOOSE i \in at : \A j \in at : i <= j

\* s.split(sep)[1]: what lies between the first and the second sep.
SplitSecond(s, sep) ==
    LET rest == Drop(s, Find(s, sep) + Len(sep) - 1)
        next == Find(rest, sep)
    IN  IF next = 0 THEN rest ELSE SubSeq(rest, 1, next - 1)

\* The index of the first whitespace character of s, or Len(s) + 1.
RECURSIVE FirstSpace(_, _)
FirstSpace(s, i) ==
    IF i > Len(s) \/ s[i] \in Whitespace THEN i ELSE FirstSpace(s, i + 1)

\* text.split(maxsplit=1)
split1(text) ==
    LET t == lstrip(text)
        k == FirstSpace(t, 1)
        rest == lstrip(Drop(t, k - 1))
    IN  IF t = <<>> THEN <<>>
        ELSE IF rest = <<>> THEN <<SubSeq(t, 1, k - 1)>>
        ELSE <<SubSeq(t, 1, k - 1), rest>>

\* The \w of a str pattern: letters, digits and the underscore.
WordChars ==
    DigitChars \cup
    {"a", "b", "c", "d", "e", "f", "g", "h", "i", "j", "k", "l", "m", "n",
     "o", "p", "q", "r", "s", "t", "u", "v", "w", "x", "y", "z",
     "A", "B", "C", "D", "E", "F", "G", "H", "I", "J", "K", "L", "M", "N",
     "O", "P", "Q", "R", "S", "T", "U", "V", "W", "X", "Y", "Z", "_"}

\* The suffixes left after matching the literal p at the head of one of rs.
Lit(rs, p) == {Drop(r, Len(p)) : r \in {x \in rs : StartsWith(x, p)}}

\* (p)? : the literal may be skipped.
OptLit(rs, p) == rs \cup Lit(rs, p)

\* [\w-]+$ : one or more word or hyphen characters up to the end, where $
\* also matches just before a final newline.
HandleToEnd(r) ==
    LET core == IF r # <<>> /\ r[Len(r)] = "\n"
                THEN SubSeq(r, 1, Len(r) - 1) ELSE r
    IN  core # <<>> /\ Range(core) \subseteq WordChars \cup {"-"}

\* ^https?://(www\.)?
SchemeAndWww(url) ==
    OptLit(Lit(OptLit(Lit({url}, <<"h", "t", "t", "p">>), <<"s">>), <<":",
        "/", "/">>), <<"w", "w", "w", ".">>)

\* YOUTUBE_PATTERN.match(url)
YOUTUBE_PATTERN(url) ==
    \E r \in Lit(SchemeAndWww(url), <<"y", "o", "u", "t", "u", "b", "e", ".",
        "c", "o", "m", "/", "@">>) : HandleToEnd(r)

\* TWITCH_PATTERN.match(url)
TWITCH_PATTERN(url) ==
    \E r \in Lit(SchemeAndWww(url), <<"t", "w", "i", "t", "c", "h", ".", "t",
        "v", "/">>) : HandleToEnd(r)

\* A check of the scheme and host prefix alone.
validate_url_scheme(url) == SchemeAndWww(url) # {}

\* A check that knows the YouTube shape alone.
validate_url_youtube(url) == YOUTUBE_PATTERN(url)

validate_url(url) == YOUTUBE_PATTERN(url) \/ TWITCH_PATTERN(url)

extract_channel_name(url) ==
    IF Find(url, <<"@">>) # 0 THEN <<"@">> \o SplitSecond(url, <<"@">>)
    ELSE IF Find(url, <<"/", "t", "v", "/">>) # 0 THEN SplitSecond(url,
        <<"/", "t", "v", "/">>)
    ELSE url


(***************************************************************************)
(* The identity cache and the command handlers (handlers/subscription.py). *)
(***************************************************************************)
\* What message.answer(...) is given: which text, and what is put into it.
NoReply ==
    [kind |-> "", message |-> Msg(""), platform |-> "", channel |-> <<>>,
     url |-> <<>>, blocks |-> <<>>, total |-> 0, id |-> 0]

ReplyOf(kind) == [NoReply EXCEPT !.kind = kind]

\* A lookup that never finds the entry.
CacheNeverHit(cache, telegram_id) == FALSE

\* `if telegram_id in user_accounts`
CacheHit(cache, telegram_id) == telegram_id \in DOMAIN cache

\* A fill that stores nothing.
CacheFillNothing(cache, telegram_id, account_id) == cache

\* A fill that rebuilds the mapping around the new entry alone.
CacheFillAlone(cache, telegram_id, account_id) ==
    [k \in {telegram_id} |-> account_id]

\* A fill that keeps an entry that is already there (dict.setdefault).
CacheFillIfAbsent(cache, telegram_id, account_id) ==
    [k \in DOMAIN cache \cup {telegram_id} |->
        IF k \in DOMAIN cache THEN cache[k] ELSE account_id]

\* A fill that stores the account under the id 101 as well.
CacheFillShared(cache, telegram_id, account_id) ==
    [k \in DOMAIN cache \cup {telegram_id, 101} |->
        IF k \in {telegram_id, 101} THEN account_id ELSE cache[k]]

\* A fill that gives every entry the new account.
CacheFillEvery(cache, telegram_id, account_id) ==
    [k \in DOMAIN cache \cup {telegram_id} |-> account_id]

\* `user_accounts[telegram_id] = account_id`
CacheFill(cache, telegram_id, account_id) ==
    [k \in DOMAIN cache \cup {telegram_id} |->
        IF k = telegram_id THEN account_id ELSE cache[k]]

\* `args = message.text.split(maxsplit=1) if message.text else []`
CommandArgs(text) ==
    IF text.present /\ text.value # <<>> THEN split1(text.value) ELSE <<>>

Invalid(reply) == [valid |-> FALSE, reply |-> reply, arg |-> PyNone]
Valid(arg) == [valid |-> TRUE, reply |-> NoReply, arg |-> arg]

\* cmd_add up to get_or_create_account: the usage and format replies.
cmd_add_validate(text) ==
    LET args == CommandArgs(text)
    IN  IF Len(args) < 2 THEN Invalid(ReplyOf("add_usage"))
        ELSE IF ~validate_url(strip(args[2]))
        THEN Invalid(ReplyOf("add_invalid_url"))
        ELSE Valid(JStr(strip(args[2])))

\* A check that takes an argument that is no number for the id 0.
cmd_remove_validate_any(text) ==
    LET args == CommandArgs(text)
    IN  IF Len(args) < 2 THEN Invalid(ReplyOf("remove_usage"))
        ELSE IF ~IntOfStr(strip(args[2])).ok THEN Valid(JInt(0))
        ELSE Valid(JInt(IntOfStr(strip(args[2])).n))

\* cmd_remove up to get_or_create_account.
cmd_remove_validate(text) ==
    LET args == CommandArgs(text)
    IN  IF Len(args) < 2 THEN Invalid(ReplyOf("remove_usage"))
        ELSE IF ~IntOfStr(strip(args[2])).ok
        THEN Invalid(ReplyOf("remove_invalid_id"))
        ELSE Valid(JInt(IntOfStr(strip(args[2])).n))

\* cmd_list has nothing to validate.
validate(kind, text) ==
    CASE kind = "add" -> cmd_add_validate(text)
      [] kind = "remove" -> cmd_remove_validate(text)
      [] kind = "list" -> Valid(PyNone)

UnavailableReply == ReplyOf("unavailable")

\* Error handlers that know the generic reply alone.
cmd_add_error_generic(e) == UnavailableReply

cmd_remove_error_generic(e) == UnavailableReply

\* `except CoreAPIError as e` of cmd_add, cmd_list and cmd_remove.
cmd_add_error(e) ==
    IF e.status_code = Some(409) THEN ReplyOf("already_subscribed")
    ELSE IF e.status_code = Some(400)
    THEN [ReplyOf("invalid_request") EXCEPT !.message = e.message]
    ELSE UnavailableReply

cmd_list_error(e) == UnavailableReply

cmd_remove_error(e) ==
    IF e.status_code = Some(404) THEN ReplyOf("not_found") ELSE UnavailableReply

on_core_error(kind, e) ==
    CASE kind = "add" -> cmd_add_error(e)
      [] kind = "list" -> cmd_list_error(e)
      [] kind = "remove" -> cmd_remove_error(e)

\* An `except Exception` that puts the exception's text into the reply.
UnexpectedReplyWithDetail ==
    [ReplyOf("unexpected") EXCEPT !.message = Msg("AttributeError")]

\* `except Exception` of the three handlers.
UnexpectedReply == ReplyOf("unexpected")

\* cmd_add after add_subscription returned result.
cmd_add_render(url, result) ==
    IF ~result.isdict THEN UnexpectedReply
    ELSE [ReplyOf("added") EXCEPT
            !.platform = IF result.platform.present
                         THEN result.platform.value ELSE "Unknown",
            !.channel = extract_channel_name(url),
            !.url = url]

\* A block numbered with the identifier of its record.
ListBlockById(idx, sub) ==
    [idx |-> sub.id, channel |-> extract_channel_name(sub.channelUrl),
     platform |-> sub.platform, url |-> sub.channelUrl, id |-> sub.id]

\* One block of the /list reply.
ListBlock(idx, sub) ==
    [idx |-> idx, channel |-> extract_channel_name(sub.channelUrl),
     platform |-> sub.platform, url |-> sub.channelUrl, id |-> sub.id]

\* cmd_list after get_subscriptions returned subscriptions.
cmd_list_render(subscriptions) ==
    IF subscriptions = <<>> THEN ReplyOf("list_empty")
    ELSE [ReplyOf("list") EXCEPT
            !.blocks = [i \in 1..Len(subscriptions) |->
                            ListBlock(i, subscriptions[i])],
            !.total = Len(subscriptions)]

\* cmd_remove after delete_subscription returned.
cmd_remove_render(subscription_id) ==
    [ReplyOf("removed") EXCEPT !.id = subscription_id]


(***************************************************************************)
(* Bounds and the inputs the command handlers are driven with.             *)
(***************************************************************************)
\* Handlers that can be in flight at once.
NumHandlers == 2

\* Commands dispatched in a run that handles them one at a time.
MaxCmds == 3

\* Commands dispatched in a run that handles them concurrently.
MaxRace == 2

\* Commands dispatched in a run that is checked for termination.
MaxLive == 1

\* Commands dispatched in a run of the whole gateway.
MaxMixed == 2

Handlers == 1..NumHandlers

\* message.from_user.id and message.from_user.username
Users == {101, 202}

\* message.from_user is None (a post without a sender).
NoUser == 0
Usernames == {NoValue, Some("neo")}

\* message.text: None (a caption carried the command) or the text.
NoText == [present |-> FALSE, value |-> <<>>]

AddTexts ==
    {NoText, Some(<<"/", "a", "d", "d">>), Some(<<"/", "a", "d", "d", " ",
        " ">> \o <<"\n">>),
     Some(<<"/", "a", "d", "d", " ", "h", "t", "t", "p", "s", ":", "/", "/",
         "w", "w", "w", ".", "y", "o", "u", "t", "u", "b", "e", ".", "c",
         "o", "m", "/", "@", "M", "r", "B", "e", "a", "s", "t">>),
     Some(<<"/", "a", "d", "d", " ", " ", " ", "h", "t", "t", "p", ":", "/",
         "/", "t", "w", "i", "t", "c", "h", ".", "t", "v", "/", "s", "h",
         "r", "o", "u", "d">> \o <<" ", "\n">>),
     Some(<<"/", "a", "d", "d", " ", "h", "t", "t", "p", "s", ":", "/", "/",
         "y", "o", "u", "t", "u", "b", "e", ".", "c", "o", "m", "/", "c",
         "h", "a", "n", "n", "e", "l", "/", "U", "C", "x", "x", "x", "x">>),
     Some(<<"/", "a", "d", "d", " ", "f", "t", "p", ":", "/", "/", "t", "w",
         "i", "t", "c", "h", ".", "t", "v", "/", "s", "h", "r", "o", "u",
         "d">>),
     Some(<<"/", "a", "d", "d", " ", "h", "t", "t", "p", "s", ":", "/", "/",
         "w", "w", "w", ".", "t", "w", "i", "t", "c", "h", ".", "t", "v",
         "/", "s", "h", "r", "o", "u", "d", " ", "n", "o", "w">>)}

RemoveTexts ==
    {NoText, Some(<<"/", "r", "e", "m", "o", "v", "e">>), Some(<<"/", "r",
        "e", "m", "o", "v", "e", " ", " ", "\n">>),
     Some(<<"/", "r", "e", "m", "o", "v", "e", " ", " ", "-", "7", " ">>),
     Some(<<"/", "r", "e", "m", "o", "v", "e", " ", "a", "b", "c">>),
         Some(<<"/", "r", "e", "m", "o", "v", "e", " ", "1", ".", "5">>),
         Some(<<"/", "r", "e", "m", "o", "v", "e", " ", "7", " ", "8">>)}

ListTexts == {Some(<<"/", "l", "i", "s", "t">>)}

Commands ==
    [kind : {"add"}, text : AddTexts]
    \cup [kind : {"remove"}, text : RemoveTexts]
    \cup [kind : {"list"}, text : ListTexts]

\* What the Core Service (or the network) answers to one request.
Response(kind, status, body, accountId, data) ==
    [kind |-> kind, status |-> status, body |-> body,
     accountId |-> accountId, data |-> data]

\* The error text the Core Service puts into an error body.
BackendText == "Channel could not be resolved"

ErrorBodies == {NotJson, JsonBody(NoValue), JsonBody(Some(BackendText))}

ErrorStatuses == {400, 404, 409, 422, 500, 503}

\* Failures: an error status with each kind of body, a network failure
\* (aiohttp.ClientError), the 10 s timeout (asyncio.TimeoutError).
Failures(data) ==
    {Response("http", st, b, Absent, data) :
        st \in ErrorStatuses, b \in ErrorBodies}
    \cup {Response("ClientError", 0, NotJson, Absent, data),
          Response("TimeoutError", 0, NotJson, Absent, data)}

\* POST /users/auth: an account id, none, an empty or a malformed one.
RegisterResponses ==
    {Response("http", 200, NotJson, a, PyNone) :
        a \in {JStr(<<"a", "1">>), JStr(<<"A", "-", "1">>), JStr(<<"b",
            "2">>), Absent, JStr(<<>>),
               JStr(<<"z", "z">>)}}
    \cup Failures(PyNone)

Platform(p) == [isdict |-> TRUE, platform |-> p]
NotADict == [isdict |-> FALSE, platform |-> NoValue]

\* POST /subscriptions
AddResponses ==
    {Response("http", 201, NotJson, Absent, d) :
        d \in {Platform(Some("YOUTUBE")), Platform(Some("TWITCH")),
               Platform(NoValue), NotADict}}
    \cup Failures(NotADict)

Sub(id, platform, channelUrl) ==
    [id |-> id, platform |-> platform, channelUrl |-> channelUrl]

\* GET /subscriptions/{accountId}
ListResponses ==
    {Response("http", 200, NotJson, Absent, d) :
        d \in {<<>>,
               <<Sub(7, "YOUTUBE", <<"h", "t", "t", "p", "s", ":", "/", "/",
                   "w", "w", "w", ".", "y", "o", "u", "t", "u", "b", "e",
                   ".", "c", "o", "m", "/", "@", "M", "r", "B", "e", "a",
                   "s", "t">>)>>,
               <<Sub(7, "YOUTUBE", <<"h", "t", "t", "p", "s", ":", "/", "/",
                   "w", "w", "w", ".", "y", "o", "u", "t", "u", "b", "e",
                   ".", "c", "o", "m", "/", "@", "M", "r", "B", "e", "a",
                   "s", "t">>),
                 Sub(3, "TWITCH", <<"h", "t", "t", "p", "s", ":", "/", "/",
                     "w", "w", "w", ".", "t", "w", "i", "t", "c", "h", ".",
                     "t", "v", "/", "s", "h", "r", "o", "u", "d">>)>>}}
    \cup Failures(<<>>)

\* DELETE /subscriptions/{id}
DeleteResponses ==
    {Response("http", 204, NotJson, Absent, PyNone)} \cup Failures(PyNone)


(***************************************************************************)
(* The command handlers as processes. A handler runs without interruption  *)
(* from one await that suspends to the next: the register_user request,    *)
(* the subscription request, and message.answer.                           *)
(***************************************************************************)
\* The client call a handler last awaited: the method, what the network
\* answered, and what the method did with it.
NoCall ==
    [op |-> "", kind |-> "", status |-> 0, body |-> NotJson,
     accountId |-> Absent, ok |-> TRUE,
     err |-> CoreAPIError(Msg(""), NoStatus)]

Call(op, resp, r) ==
    [op |-> op, kind |-> resp.kind, status |-> resp.status,
     body |-> resp.body, accountId |-> resp.accountId, ok |-> r.ok,
     err |-> r.err]

Idle ==
    [pc |-> "idle", kind |-> "", user |-> 0, username |-> NoValue,
     text |-> NoText, arg |-> PyNone, account |-> PyNone, reply |-> NoReply,
     reg |-> 0, sub |-> 0, call |-> NoCall, subscriptions |-> <<>>]

\* A handler that issues its failed subscription request once more before
\* it replies.
AnswerAfterRetry(slot, reply) ==
    IF slot.sub = 1 /\ ~slot.call.ok
    THEN [slot EXCEPT !.pc = "calling", !.sub = @ + 1]
    ELSE [slot EXCEPT !.pc = "replying", !.reply = reply]

\* The handler sends its reply: `await message.answer(...)`.
Answer(slot, reply) == [slot EXCEPT !.pc = "replying", !.reply = reply]

\* The handler issues its subscription request with account_id.
CallBackend(slot, account_id) ==
    [slot EXCEPT !.pc = "calling", !.account = account_id, !.sub = @ + 1]

\* The handler issues the register_user request.
CallRegister(slot) == [slot EXCEPT !.pc = "registering", !.reg = @ + 1]

\* The dispatcher starts cmd_add, cmd_list or cmd_remove on a message, as
\* the first handler that is free; the handler runs to its first
\* suspension: the usage or format reply, the subscription request on a
\* cache hit, the registration on a miss.
Dispatch(h, cmd, user, username) ==
    LET slot == [Idle EXCEPT !.kind = cmd.kind, !.user = user,
                             !.username = username, !.text = cmd.text]
        v == validate(cmd.kind, cmd.text)
    IN  /\ handlers[h].pc = "idle"
        /\ \A k \in 1..(h - 1) : handlers[k].pc # "idle"
        /\ started' = started + 1
        /\ IF ~v.valid
           THEN /\ handlers' = [handlers EXCEPT ![h] = Answer(slot, v.reply)]
                /\ UNCHANGED regCalls
           ELSE IF user = NoUser
           \* `message.from_user.id` raises AttributeError, which the
           \* handler's `except Exception` answers.
           THEN /\ handlers' = [handlers EXCEPT ![h] =
                        Answer(slot, UnexpectedReply)]
                /\ UNCHANGED regCalls
           ELSE IF CacheHit(user_accounts, user)
           THEN /\ handlers' = [handlers EXCEPT ![h] =
                        CallBackend([slot EXCEPT !.arg = v.arg],
                                    user_accounts[user])]
                /\ UNCHANGED regCalls
           ELSE /\ handlers' = [handlers EXCEPT ![h] =
                        CallRegister([slot EXCEPT !.arg = v.arg])]
                /\ regCalls' = [regCalls EXCEPT ![user] = @ + 1]
        /\ UNCHANGED <<user_accounts, regOk, returned, lastReg, relayVars,
                       urlVars>>

\* register_user completes inside get_or_create_account: on success the
\* cache is filled and the subscription request issued; on failure the
\* CoreAPIError reaches the handler's except clause.
RegisterDone(h, resp) ==
    LET r == register_user(resp)
        slot == [handlers[h] EXCEPT !.call = Call("register_user", resp, r)]
    IN  /\ slot.pc = "registering"
        /\ IF r.ok
           THEN /\ user_accounts' = CacheFill(user_accounts, slot.user, r.value)
                /\ handlers' = [handlers EXCEPT ![h] = CallBackend(slot, r.value)]
                /\ regOk' = [regOk EXCEPT ![slot.user] = @ + 1]
                /\ returned' = [returned EXCEPT ![slot.user] =
                        @ \cup {r.value}]
                /\ lastReg' = [lastReg EXCEPT ![slot.user] =
                        [account |-> r.value, username |-> slot.username]]
           ELSE /\ handlers' = [handlers EXCEPT ![h] =
                        Answer(slot, on_core_error(slot.kind, r.err))]
                /\ UNCHANGED <<user_accounts, regOk, returned, lastReg>>
        /\ UNCHANGED <<started, regCalls, relayVars, urlVars>>

\* What the handler replies once its subscription request has completed.
Outcome(slot, r) ==
    IF ~r.ok THEN on_core_error(slot.kind, r.err)
    ELSE CASE slot.kind = "add" -> cmd_add_render(slot.arg.s, r.value)
           [] slot.kind = "list" -> cmd_list_render(r.value)
           [] slot.kind = "remove" -> cmd_remove_render(slot.arg.n)

BackendDone(h, op, resp, r) ==
    LET slot == [handlers[h] EXCEPT
                    !.call = Call(op, resp, r),
                    !.subscriptions =
                        IF op = "get_subscriptions" /\ r.ok THEN r.value
                        ELSE <<>>]
    IN  /\ handlers' = [handlers EXCEPT ![h] = Answer(slot, Outcome(slot, r))]
        /\ UNCHANGED <<user_accounts, started, regCalls, regOk, returned,
                       lastReg,
                       relayVars, urlVars>>

AddDone(h, resp) ==
    /\ handlers[h].pc = "calling"
    /\ handlers[h].kind = "add"
    /\ BackendDone(h, "add_subscription", resp, add_subscription(resp))

ListDone(h, resp) ==
    /\ handlers[h].pc = "calling"
    /\ handlers[h].kind = "list"
    /\ BackendDone(h, "get_subscriptions", resp, get_subscriptions(resp))

RemoveDone(h, resp) ==
    /\ handlers[h].pc = "calling"
    /\ handlers[h].kind = "remove"
    /\ BackendDone(h, "delete_subscription", resp, delete_subscription(resp))

\* cmd_start (main.py): the greeting, with the username or "there".
cmd_start(username) ==
    [ReplyOf("start") EXCEPT
        !.message = Msg(IF username.present /\ username.value # ""
                        THEN username.value ELSE "there")]

\* cmd_help (main.py): the fixed help text.
cmd_help == ReplyOf("help")

\* The dispatcher starts cmd_start on a /start message as the first handler
\* that is free; the handler runs to `await message.answer(...)`.
Start(h, user, username) ==
    /\ handlers[h].pc = "idle"
    /\ \A k \in 1..(h - 1) : handlers[k].pc # "idle"
    /\ started' = started + 1
    /\ handlers' = [handlers EXCEPT ![h] =
            Answer([Idle EXCEPT !.kind = "start", !.user = user,
                                !.username = username],
                   cmd_start(username))]
    /\ UNCHANGED <<user_accounts, regCalls, regOk, returned, lastReg,
                   relayVars, urlVars>>

\* The same for cmd_help.
Help(h) ==
    /\ handlers[h].pc = "idle"
    /\ \A k \in 1..(h - 1) : handlers[k].pc # "idle"
    /\ started' = started + 1
    /\ handlers' = [handlers EXCEPT ![h] =
            Answer([Idle EXCEPT !.kind = "help"], cmd_help)]
    /\ UNCHANGED <<user_accounts, regCalls, regOk, returned, lastReg,
                   relayVars, urlVars>>

\* message.answer returns and the handler ends.
Replied(h) ==
    /\ handlers[h].pc = "replying"
    /\ handlers' = [handlers EXCEPT ![h] = Idle]
    /\ UNCHANGED <<user_accounts, started, regCalls, regOk, returned,
                   lastReg,
                   relayVars, urlVars>>

(***************************************************************************)
(* Specifications.                                                         *)
(***************************************************************************)
InitCommands ==
    /\ user_accounts = [u \in {} |-> PyNone]
    /\ handlers = [h \in Handlers |-> Idle]
    /\ started = 0
    /\ regCalls = [u \in Users |-> 0]
    /\ regOk = [u \in Users |-> 0]
    /\ returned = [u \in Users |-> {}]
    /\ lastReg = [u \in Users |-> [account |-> PyNone, username |-> NoValue]]

\* No URL is under consideration.
NoChannel == [url |-> <<>>, applied |-> "none", valid |-> FALSE, name |-> <<>>]

Init ==
    /\ internal_service_key = Some("s3cret")
    /\ relay = NoRequest
    /\ InitCommands
    /\ channel = NoChannel

\* The process may run with any of the three configurations of the secret.
InitRelay ==
    /\ internal_service_key \in Keys
    /\ relay = NoRequest
    /\ InitCommands
    /\ channel = NoChannel

\* One step of handler h, the answer drawn from the given responses.
Step(h, registers, adds, lists, deletes) ==
    \/ \E resp \in registers : RegisterDone(h, resp)
    \/ \E resp \in adds : AddDone(h, resp)
    \/ \E resp \in lists : ListDone(h, resp)
    \/ \E resp \in deletes : RemoveDone(h, resp)
    \/ Replied(h)

\* The commands of the concurrent runs: one of each handler, and one add
\* that fails validation.
RaceCommands ==
    {[kind |-> "add", text |-> Some(<<"/", "a", "d", "d", " ", "h", "t", "t",
        "p", "s", ":", "/", "/", "w", "w", "w", ".", "y", "o", "u", "t", "u",
        "b", "e", ".", "c", "o", "m", "/", "@", "M", "r", "B", "e", "a", "s",
        "t">>)],
     [kind |-> "add", text |-> Some(<<"/", "a", "d", "d", " ", "h", "t", "t",
         "p", "s", ":", "/", "/", "y", "o", "u", "t", "u", "b", "e", ".",
         "c", "o", "m", "/", "c", "h", "a", "n", "n", "e", "l", "/", "U",
         "C", "x", "x", "x", "x">>)],
     [kind |-> "remove", text |-> Some(<<"/", "r", "e", "m", "o", "v", "e",
         " ", " ", "-", "7", " ">>)],
     [kind |-> "list", text |-> Some(<<"/", "l", "i", "s", "t">>)]}

\* The answers of the concurrent runs: a success and a failure of each.
RaceRegisterResponses ==
    {r \in RegisterResponses :
        \/ r.accountId \in {JStr(<<"a", "1">>), JStr(<<"b", "2">>)}
        \/ r.status = 500 /\ r.body = JsonBody(Some(BackendText))}

RaceAddResponses ==
    {r \in AddResponses :
        \/ r.data = Platform(Some("YOUTUBE"))
        \/ r.status = 409 /\ r.body = JsonBody(Some(BackendText))}

RaceListResponses ==
    {r \in ListResponses :
        \/ r.status = 200 /\ Len(r.data) <= 1
        \/ r.status = 500 /\ r.body = JsonBody(Some(BackendText))}

RaceDeleteResponses ==
    {r \in DeleteResponses :
        \/ r.status = 204
        \/ r.status = 404 /\ r.body = JsonBody(Some(BackendText))}

\* Commands handled as concurrent tasks.
Next ==
    \/ \E h \in Handlers, cmd \in RaceCommands, u \in Users \cup {NoUser} :
            /\ started < MaxRace
            /\ Dispatch(h, cmd, u, NoValue)
    \/ \E h \in Handlers :
            Step(h, RaceRegisterResponses, RaceAddResponses,
                 RaceListResponses, RaceDeleteResponses)

Spec == Init /\ [][Next]_vars

\* Commands handled one at a time: a handler starts when none is in
\* flight, until max commands have been started.
DispatchOne(max) ==
    \E h \in Handlers, cmd \in Commands, u \in Users, n \in Usernames :
        /\ started < max
        /\ \A k \in Handlers : handlers[k].pc = "idle"
        /\ Dispatch(h, cmd, u, n)

DispatchNoSender(max) ==
    \E h \in Handlers, cmd \in Commands :
        /\ started < max
        /\ \A k \in Handlers : handlers[k].pc = "idle"
        /\ Dispatch(h, cmd, NoUser, NoValue)

\* The handler in flight takes its next step, on any answer of the backend.
StepOne ==
    \E h \in Handlers :
        Step(h, RegisterResponses, AddResponses, ListResponses,
             DeleteResponses)

NextSeq ==
    \/ DispatchOne(MaxCmds)
    \/ DispatchNoSender(MaxCmds)
    \/ StepOne

SpecSeq == Init /\ [][NextSeq]_vars

\* Every request of the client ends within its 10 s timeout and
\* message.answer returns: a handler that can take a step takes it.
Progress == WF_vars(StepOne)

NextLive == DispatchOne(MaxLive) \/ DispatchNoSender(MaxLive) \/ StepOne

SpecLive == Init /\ [][NextLive]_vars /\ Progress

\* The whole gateway: the bot's handlers as concurrent tasks and the
\* internal API in one process. The commands are /list, /start and /help;
\* the relay requests carry a good or a missing key.
GatewayRegisterResponses ==
    {r \in RaceRegisterResponses : r.status \in {200, 500}}

GatewayListResponses == {r \in RaceListResponses : r.data = <<>>}

GatewayHeaders == {NoValue, Some("s3cret")}

GatewayBodies ==
    {[kind |-> "object", chatId |-> JStr(<<"1", "2", "3">>),
        message |-> JStr(<<"l", "i", "v", "e">>)]}

NextGateway ==
    \/ \E h \in Handlers, text \in ListTexts, u \in Users :
            /\ started < MaxMixed
            /\ Dispatch(h, [kind |-> "list", text |-> text], u, NoValue)
    \/ \E h \in Handlers, u \in Users, n \in Usernames :
            /\ started < MaxMixed
            /\ Start(h, u, n)
    \/ \E h \in Handlers : started < MaxMixed /\ Help(h)
    \/ \E h \in Handlers, resp \in GatewayRegisterResponses :
            RegisterDone(h, resp)
    \/ \E h \in Handlers, resp \in GatewayListResponses : ListDone(h, resp)
    \/ \E h \in Handlers : Replied(h)
    \/ \E a \in GatewayHeaders, b \in GatewayBodies, o \in Outcomes :
            Notify(a, b, o)
    \/ Health
    \/ Responded

SpecGateway == Init /\ [][NextGateway]_vars

\* The internal API alone.
NextRelay ==
    \/ \E a \in Headers, b \in Bodies, o \in Outcomes : Notify(a, b, o)
    \/ Health
    \/ Responded

SpecRelay == InitRelay /\ [][NextRelay]_vars

\* The texts a channel URL is drawn from: a scheme, an optional www., a host
\* with the start of its path, a handle and a tail.
UrlSchemes == {<<>>, <<"h", "t", "t", "p", ":", "/", "/">>, <<"h", "t", "t",
    "p", "s", ":", "/", "/">>, <<"f", "t", "p", ":", "/", "/">>, <<"x", "h",
    "t", "t", "p", "s", ":", "/", "/">>}

UrlWww == {<<>>, <<"w", "w", "w", ".">>}

UrlHosts ==
    {<<"y", "o", "u", "t", "u", "b", "e", ".", "c", "o", "m",
        "/">> \o <<"@">>,
     <<"t", "w", "i", "t", "c", "h", ".", "t", "v", "/">>,
     <<"y", "o", "u", "t", "u", "b", "e", ".", "c", "o", "m", "/", "c", "h",
         "a", "n", "n", "e", "l", "/">>,
     <<"t", "w", "i", "t", "c", "h", ".", "t", "v", "/", "t", "v", "/">>,
     <<"y", "o", "u", "t", "u", "b", "e", "X", "c", "o", "m",
         "/">> \o <<"@">>}

UrlHandles ==
    {<<>>, <<"M", "r", "B", "e", "a", "s", "t">>, <<"s", "h", "r", "o", "u",
        "d">>, <<"U", "C", "x", "x", "x", "x">>,
     <<"a", "-", "b", "_", "1">>, <<"a", " ", "b">>, <<"a", "/", "b">>,
     <<"a">> \o <<"@">> \o <<"b">>}

UrlTails == {<<>>, <<" ">>, <<"\n">>}

Urls ==
    {s \o w \o host \o handle \o tail :
        s \in UrlSchemes, w \in UrlWww, host \in UrlHosts,
        handle \in UrlHandles, tail \in UrlTails}

InitUrl ==
    /\ internal_service_key = Some("s3cret")
    /\ relay = NoRequest
    /\ InitCommands
    /\ channel \in {[NoChannel EXCEPT !.url = u] : u \in Urls}

\* cmd_add on the argument of /add: `url = args[1].strip()`, then
\* validate_url(url).
ValidateUrl ==
    /\ channel.applied = "none"
    /\ channel' = [channel EXCEPT
            !.url = strip(@),
            !.applied = "validate_url",
            !.valid = validate_url(strip(channel.url))]
    /\ UNCHANGED <<cmdVars, relayVars>>

\* cmd_list on the channelUrl of a record, cmd_add on the URL it added:
\* extract_channel_name(url).
ExtractName ==
    /\ channel.applied = "none"
    /\ channel' = [channel EXCEPT
            !.applied = "extract_channel_name",
            !.name = extract_channel_name(channel.url)]
    /\ UNCHANGED <<cmdVars, relayVars>>

NextUrl == ValidateUrl \/ ExtractName

SpecUrl == InitUrl /\ [][NextUrl]_vars


(***************************************************************************)
(* Properties of the relay endpoint, checked under SpecRelay.              *)
(***************************************************************************)
Relayed == relay.route = "/internal/send"

\* The secret is configured, and the header carries exactly that secret.
SecretSet == internal_service_key.present /\ internal_service_key.value # ""

Authenticated ==
    /\ Relayed
    /\ SecretSet
    /\ relay.auth_header = internal_service_key

\* The body is a JSON object, with the two fields as dict.get returns them.
IsObject == relay.body.kind = "object"
ChatIdField == DictGet(relay.body.chatId)
MessageField == DictGet(relay.body.message)

\* Empty: missing, null, or a value Python takes for false ("", 0, [], {}).
EmptyValues ==
    {PyNone, JStr(<<>>), JInt(0), JFloat(0), JBool(FALSE), JList(0), JDict(0)}

\* The chat ids of the model that int() converts, with the integer each
\* one stands for.
ChatIdInts ==
    {<<JStr(<<"1", "2", "3">>), 123>>, <<JStr(<<" ", "4", "2", " ">>), 42>>,
        <<JStr(<<"-", "7">>), 0 - 7>>,
     <<JStr(<<"1", "_", "0">>), 10>>, <<JInt(55), 55>>, <<JFloat(19), 1>>,
     <<JFloat(0 - 19), 0 - 1>>, <<JBool(TRUE), 1>>}

Coercible == \E p \in ChatIdInts : p[1] = ChatIdField

NoSend == relay.response.sends = <<>>

ForbiddenPayload == "Forbidden: Invalid authentication key"
MisconfiguredPayload == "Internal service authentication not configured"
DeliveryFailurePayload == "Failed to send message: "
ClientErrorPayloads ==
    {"Invalid JSON body", "Missing required field: chatId",
     "Missing required field: message",
     "Invalid chatId format: must be numeric"}

\* C1: with a non-empty secret configured, a request whose header equals
\* the secret, whose body holds a non-empty chatId coercible to an integer
\* and a non-empty message, and whose send succeeds, is answered 200 with
\* status "success" after exactly one send, to int(chatId), of the message.
C1_RelaySuccess ==
    \A p \in ChatIdInts :
        (/\ Authenticated
         /\ IsObject
         /\ ChatIdField = p[1]
         /\ MessageField \notin EmptyValues
         /\ relay.outcome = "ok")
        => /\ relay.response.status = 200
           /\ relay.response.result = "success"
           /\ relay.response.raised = ""
           /\ relay.response.sends = <<SendMessage(p[2], MessageField)>>

C1_Witness ==
    /\ Authenticated
    /\ relay.body.chatId = JStr(<<" ", "4", "2", " ">>)
    /\ relay.body.message = JStr(<<"l", "i", "v", "e">>)
    /\ relay.response.status = 200
    /\ relay.response.sends =
            <<[chat_id |-> 42, text |-> JStr(<<"l", "i", "v", "e">>),
                parse_mode |-> "HTML"]>>

\* C2: with a secret configured, a request whose header is missing, empty
\* or not exactly the secret is answered 403 and sends nothing, whatever
\* its body: the body is not looked at, so a malformed one yields 403 too.
C2_BadHeaderForbidden ==
    (/\ Relayed
     /\ SecretSet
     /\ \/ ~relay.auth_header.present
        \/ relay.auth_header.value = ""
        \/ relay.auth_header.value # internal_service_key.value)
    => /\ relay.response.status = 403
       /\ relay.response.error = ForbiddenPayload
       /\ NoSend

C2_Witness ==
    /\ Relayed
    /\ SecretSet
    /\ relay.auth_header = Some("s3cret ")
    /\ relay.body.kind = "notjson"
    /\ relay.response.status = 403
    /\ NoSend

\* C3: with no secret configured (unset, or set to the empty string) every
\* request is answered 500 with the misconfiguration payload, which is not
\* the 403 payload, and sends nothing, whatever its header and body: the
\* check comes before the header comparison.
C3_UnconfiguredIs500 ==
    (Relayed /\ ~SecretSet)
    => /\ relay.response.status = 500
       /\ relay.response.error = MisconfiguredPayload
       /\ relay.response.error # ForbiddenPayload
       /\ NoSend

C3_Witness ==
    /\ Relayed
    /\ internal_service_key = Some("")
    /\ relay.auth_header = Some("")
    /\ relay.body.kind = "object"
    /\ Coercible
    /\ relay.response.status = 500
    /\ NoSend

\* C4: an authenticated request with a missing or empty chatId is answered
\* 400 naming chatId; otherwise with a missing or empty message 400 naming
\* message; otherwise with a chatId that is not coercible to an integer
\* 400; and nothing is sent in any of the three cases.
C4_ValidationIs400 ==
    (Authenticated /\ IsObject)
    => /\ ChatIdField \in EmptyValues
            => /\ relay.response.status = 400
               /\ relay.response.error = "Missing required field: chatId"
               /\ NoSend
       /\ (ChatIdField \notin EmptyValues /\ MessageField \in EmptyValues)
            => /\ relay.response.status = 400
               /\ relay.response.error = "Missing required field: message"
               /\ NoSend
       /\ (/\ ChatIdField \notin EmptyValues
           /\ MessageField \notin EmptyValues
           /\ ~Coercible)
            => /\ relay.response.status = 400
               /\ NoSend

\* C5: an authenticated, validated request whose send fails is answered
\* 500 with the delivery-failure payload, which is none of the 403, 400 and
\* misconfiguration payloads, after exactly one send: there is no retry.
C5_SendFailureIs500 ==
    (/\ Authenticated
     /\ IsObject
     /\ Coercible
     /\ MessageField \notin EmptyValues
     /\ relay.outcome # "ok")
    => /\ relay.response.status = 500
       /\ relay.response.error = DeliveryFailurePayload
       /\ relay.response.detail = relay.outcome
       /\ relay.response.error \notin
            {ForbiddenPayload, MisconfiguredPayload} \cup ClientErrorPayloads
       /\ Len(relay.response.sends) = 1

C5_Witness ==
    /\ Authenticated
    /\ relay.body.chatId = JInt(55)
    /\ relay.outcome # "ok"
    /\ relay.response.status = 500
    /\ relay.response.sends =
            <<[chat_id |-> 55, text |-> MessageField, parse_mode |-> "HTML"]>>


(***************************************************************************)
(* Properties of the identity cache. C6 and C7 are about commands handled  *)
(* one at a time (SpecSeq), C8 and C9 about concurrent handlers (Spec).    *)
(***************************************************************************)
Registering(e) ==
    {h \in Handlers : handlers[h].pc = "registering" /\ handlers[h].user = e}

\* Handlers whose get_or_create_account has returned an account.
Resolved(e) ==
    {h \in Handlers :
        handlers[h].pc \in {"calling", "replying"} /\ handlers[h].user = e
        /\ handlers[h].account # PyNone}

\* C6: a resolve for e that follows, with no interleaving, a resolve for e
\* whose registration succeeded issues no registration call and returns the
\* account the first one returned, so that one call was made for both; it
\* goes straight to its subscription request, whatever username it carries.
C6_SecondResolveFromCache ==
    [][\A h \in Handlers :
        (/\ handlers[h].pc = "idle"
         /\ handlers'[h].pc \in {"registering", "calling"}
         /\ handlers'[h].user \in DOMAIN user_accounts)
        => /\ regCalls' = regCalls
           /\ regOk[handlers'[h].user] = 1
           /\ handlers'[h].reg = 0
           /\ handlers'[h].pc = "calling"
           /\ handlers'[h].account = lastReg[handlers'[h].user].account]_vars

C6_Witness ==
    \E h \in Handlers :
        /\ handlers[h].pc = "calling"
        /\ handlers[h].reg = 0
        /\ handlers[h].username # lastReg[handlers[h].user].username
        /\ handlers[h].account = lastReg[handlers[h].user].account
        /\ regCalls[handlers[h].user] = 1
        /\ regOk[handlers[h].user] = 1

\* C7 as stated: with commands handled one at a time, at most one
\* registration call is issued per user, whatever the backend answers.
C7_AtMostOneCall == \A e \in Users : regCalls[e] <= 1

\* C7 as amended: with commands handled one at a time, at most one
\* registration call per user succeeds and none is issued once one has
\* succeeded: every call but the last one issued for the user has failed.
C7_AtMostOneSuccess ==
    \A e \in Users :
        /\ regOk[e] + Cardinality(Registering(e)) <= 1
        /\ regCalls[e] > 1 => regCalls[e] > regOk[e] + Cardinality(Registering(e))
        /\ e \in DOMAIN user_accounts => Registering(e) = {}

C7_Witness ==
    \E e \in Users : regCalls[e] = 2 /\ regOk[e] = 1 /\ e \in DOMAIN user_accounts

\* C8 as stated: under any interleaving, an entry of the cache stays, with
\* the value it has, in every later state.
C8_NeverEvictedOrUpdated ==
    [][\A e \in DOMAIN user_accounts :
        e \in DOMAIN user_accounts' /\ user_accounts'[e] = user_accounts[e]]_vars

\* C8 as amended: an entry is never evicted, and its value changes only
\* when a handler for the same user, whose registration was in flight,
\* fills the cache with the account that registration returned.
C8_NeverEvicted ==
    [][\A e \in DOMAIN user_accounts :
        /\ e \in DOMAIN user_accounts'
        /\ user_accounts'[e] # user_accounts[e]
            => \E h \in Registering(e) :
                    /\ handlers'[h].pc = "calling"
                    /\ handlers'[h].account = user_accounts'[e]]_vars

\* An entry has been overwritten: a handler resolved the user, through its
\* own registration, to an account that the cache no longer holds.
C8_Witness ==
    \E e \in DOMAIN user_accounts :
        \E h \in Resolved(e) :
            /\ handlers[h].reg = 1
            /\ handlers[h].account # user_accounts[e]

\* C9: two handlers for one user can both miss the cache and both register;
\* each fills the cache with its own result when its registration returns,
\* so the cache holds the result of the registration that returned last.
C9_LastWriteWins ==
    /\ [](\A e \in Users :
            /\ e \in DOMAIN user_accounts <=> regOk[e] > 0
            /\ e \in DOMAIN user_accounts
                => user_accounts[e] = lastReg[e].account)
    /\ [][\A h \in Handlers :
            (handlers[h].pc = "registering" /\ handlers'[h].pc = "calling")
            => user_accounts'[handlers[h].user] = handlers'[h].account]_vars

C9_Witness ==
    \E e \in Users : \E h1, h2 \in Resolved(e) :
        /\ h1 # h2
        /\ handlers[h1].reg = 1
        /\ handlers[h2].reg = 1
        /\ regCalls[e] = 2
        /\ regOk[e] = 2
        /\ handlers[h1].account # handlers[h2].account
        /\ user_accounts[e] = handlers[h2].account
        /\ lastReg[e].account = handlers[h2].account

(***************************************************************************)
(* Properties of the command handlers.                                     *)
(***************************************************************************)
\* /add texts without an argument, and with one of neither URL shape.
AddTextsNoArgument == {NoText, Some(<<"/", "a", "d", "d">>), Some(<<"/", "a",
    "d", "d", " ", " ">> \o <<"\n">>)}

AddTextsBadUrl ==
    {Some(<<"/", "a", "d", "d", " ", "h", "t", "t", "p", "s", ":", "/", "/",
        "y", "o", "u", "t", "u", "b", "e", ".", "c", "o", "m", "/", "c", "h",
        "a", "n", "n", "e", "l", "/", "U", "C", "x", "x", "x", "x">>),
     Some(<<"/", "a", "d", "d", " ", "f", "t", "p", ":", "/", "/", "t", "w",
         "i", "t", "c", "h", ".", "t", "v", "/", "s", "h", "r", "o", "u",
         "d">>),
     Some(<<"/", "a", "d", "d", " ", "h", "t", "t", "p", "s", ":", "/", "/",
         "w", "w", "w", ".", "t", "w", "i", "t", "c", "h", ".", "t", "v",
         "/", "s", "h", "r", "o", "u", "d", " ", "n", "o", "w">>)}

RejectedAdd(slot) ==
    slot.kind = "add" /\ slot.text \in AddTextsNoArgument \cup AddTextsBadUrl

\* C10: an /add without an argument is answered with the usage message and
\* one whose argument has neither URL shape with the format message; the
\* handler issues no registration and no addSubscription request, and no
\* step of it changes the identity cache.
C10_RejectedAddNoNetwork ==
    /\ [](\A h \in Handlers :
            RejectedAdd(handlers[h])
            => /\ handlers[h].pc = "replying"
               /\ handlers[h].reg = 0
               /\ handlers[h].sub = 0
               /\ handlers[h].text \in AddTextsNoArgument
                    => handlers[h].reply = ReplyOf("add_usage")
               /\ handlers[h].text \in AddTextsBadUrl
                    => handlers[h].reply = ReplyOf("add_invalid_url"))
    /\ [][\A h \in Handlers :
            (/\ handlers'[h] # handlers[h]
             /\ RejectedAdd(handlers[h]) \/ RejectedAdd(handlers'[h]))
            => /\ user_accounts' = user_accounts
               /\ regCalls' = regCalls
               /\ regOk' = regOk]_vars

C10_Witness ==
    \E h \in Handlers :
        /\ handlers[h].text \in AddTextsBadUrl
        /\ handlers[h].reply.kind = "add_invalid_url"
        /\ handlers[h].user \notin DOMAIN user_accounts
        /\ user_accounts # <<>>

(***************************************************************************)
(* /remove commands that fail validation.                                  *)
(***************************************************************************)
RemoveTextsNoArgument == {NoText, Some(<<"/", "r", "e", "m", "o", "v",
    "e">>), Some(<<"/", "r", "e", "m", "o", "v", "e", " ", " ", "\n">>)}

RemoveTextsBadId ==
    {Some(<<"/", "r", "e", "m", "o", "v", "e", " ", "a", "b", "c">>),
        Some(<<"/", "r", "e", "m", "o", "v", "e", " ", "1", ".", "5">>),
        Some(<<"/", "r", "e", "m", "o", "v", "e", " ", "7", " ", "8">>)}

RejectedRemove(slot) ==
    /\ slot.kind = "remove"
    /\ slot.text \in RemoveTextsNoArgument \cup RemoveTextsBadId

\* C11: a /remove without an argument is answered with the usage message
\* and one whose argument int() does not parse with the format message; the
\* handler issues no registration and no deleteSubscription request, and no
\* step of it changes the identity cache.
C11_RejectedRemoveNoNetwork ==
    /\ [](\A h \in Handlers :
            RejectedRemove(handlers[h])
            => /\ handlers[h].pc = "replying"
               /\ handlers[h].reg = 0
               /\ handlers[h].sub = 0
               /\ handlers[h].call = NoCall
               /\ handlers[h].text \in RemoveTextsNoArgument
                    => handlers[h].reply = ReplyOf("remove_usage")
               /\ handlers[h].text \in RemoveTextsBadId
                    => handlers[h].reply = ReplyOf("remove_invalid_id"))
    /\ [][\A h \in Handlers :
            (/\ handlers'[h] # handlers[h]
             /\ RejectedRemove(handlers[h]) \/ RejectedRemove(handlers'[h]))
            => /\ user_accounts' = user_accounts
               /\ regCalls' = regCalls
               /\ regOk' = regOk]_vars

\* A /remove with a malformed id is being answered for a user who has no
\* cache entry while another user has one.
C11_Witness ==
    \E h \in Handlers :
        /\ handlers[h].text \in RemoveTextsBadId
        /\ handlers[h].reply.kind = "remove_invalid_id"
        /\ handlers[h].user \notin DOMAIN user_accounts
        /\ user_accounts # <<>>

(***************************************************************************)
(* The mapping of failed backend calls to CoreAPIError.                    *)
(***************************************************************************)
ClientOps ==
    {"register_user", "add_subscription", "get_subscriptions",
     "delete_subscription"}

\* Handler h has awaited a client call that raised on an error response.
HttpFailure(h) ==
    /\ handlers[h].call.op \in ClientOps
    /\ handlers[h].call.kind = "http"
    /\ ~handlers[h].call.ok

\* C12: an error response with status 400, 409 or another status below 500
\* that is not 404 raises a CoreAPIError with the response status; its
\* message is the message field of the error body when the body has one,
\* and is built from the status alone when the body has no parseable
\* message.
C12_BodyMessageVerbatim ==
    \A h \in Handlers :
        (/\ HttpFailure(h)
         /\ handlers[h].call.status # 404
         /\ handlers[h].call.status < 500)
        => /\ handlers[h].call.err.status_code = Some(handlers[h].call.status)
           /\ handlers[h].call.body = JsonBody(Some(BackendText))
                => handlers[h].call.err.message = Msg(BackendText)
           /\ handlers[h].call.body \in {NotJson, JsonBody(NoValue)}
                => handlers[h].call.err.message
                        = HttpMsg(handlers[h].call.status)

Failed(h, kind) ==
    /\ handlers[h].kind = kind
    /\ handlers[h].call.op \in ClientOps
    /\ ~handlers[h].call.ok

\* The status of the error response the failed call of h got, if it got one.
FailedStatus(h) ==
    IF handlers[h].call.kind = "http" THEN Some(handlers[h].call.status)
    ELSE NoStatus

\* A handler that is replying does nothing more than end.
OneReply ==
    [][\A h \in Handlers :
        (handlers[h].pc = "replying" /\ handlers'[h] # handlers[h])
        => handlers'[h] = Idle]_vars

\* C14: a valid /add whose backend call failed answers "already subscribed"
\* when the response status was 409, the invalid-request text with the
\* message of the CoreAPIError when it was 400, and the generic unavailable
\* text for every other failure (404, 5xx, other statuses, network
\* failure); it sends that one reply and ends.
C14_AddErrorReplies ==
    /\ [](\A h \in Handlers :
            Failed(h, "add")
            => /\ handlers[h].pc = "replying"
               /\ FailedStatus(h) = Some(409)
                    => handlers[h].reply = ReplyOf("already_subscribed")
               /\ FailedStatus(h) = Some(400)
                    => handlers[h].reply =
                         [ReplyOf("invalid_request") EXCEPT
                            !.message = handlers[h].call.err.message]
               /\ FailedStatus(h) \notin {Some(409), Some(400)}
                    => handlers[h].reply = UnavailableReply)
    /\ OneReply

\* addSubscription was refused with 409 and /add answers "already
\* subscribed".
C14_Witness ==
    \E h \in Handlers :
        /\ Failed(h, "add")
        /\ handlers[h].call.op = "add_subscription"
        /\ handlers[h].call.status = 409
        /\ handlers[h].reply.kind = "already_subscribed"

\* C15: a valid /remove whose backend call failed answers "not found" when
\* the response status was 404 and the generic unavailable text for every
\* other failure; the success reply is sent only after delete_subscription
\* returned without raising.
C15_RemoveErrorReplies ==
    \A h \in Handlers :
        /\ Failed(h, "remove")
            => /\ handlers[h].pc = "replying"
               /\ FailedStatus(h) = Some(404)
                    => handlers[h].reply = ReplyOf("not_found")
               /\ FailedStatus(h) # Some(404)
                    => handlers[h].reply = UnavailableReply
        /\ handlers[h].reply.kind = "removed"
            => /\ handlers[h].call.op = "delete_subscription"
               /\ handlers[h].call.ok
               /\ handlers[h].call.status < 400

\* deleteSubscription was refused with 404 and /remove answers "not found".
C15_Witness ==
    \E h \in Handlers :
        /\ Failed(h, "remove")
        /\ handlers[h].call.op = "delete_subscription"
        /\ handlers[h].call.status = 404
        /\ handlers[h].reply.kind = "not_found"

\* C16: for each of the four client methods a call that runs into the 10 s
\* timeout raises the CoreAPIError a connection failure raises, with the
\* fixed unavailable message and no status, and the command replies as it
\* does to a connection failure.
C16_TimeoutAsNetworkFailure ==
    \A h \in Handlers :
        (handlers[h].call.op \in ClientOps
         /\ handlers[h].call.kind = "TimeoutError")
        => /\ handlers[h].call.err = CoreAPIError(UnavailableMsg, NoStatus)
           /\ handlers[h].pc = "replying"
           /\ handlers[h].reply =
                on_core_error(handlers[h].kind,
                              CoreAPIError(UnavailableMsg, NoStatus))

(***************************************************************************)
(* The /list reply.                                                        *)
(***************************************************************************)
\* Handler h runs /list and get_subscriptions has returned.
Listed(h) ==
    /\ handlers[h].kind = "list"
    /\ handlers[h].call.op = "get_subscriptions"
    /\ handlers[h].call.ok

\* C17: when get_subscriptions returns no record /list answers with the
\* onboarding text and no block; when it returns N > 0 records the reply
\* has N blocks, the i-th numbered i and showing the identifier of the i-th
\* record of the response, and the total it reports is N.
C17_ListRendering ==
    \A h \in Handlers :
        Listed(h)
        => LET subs == handlers[h].subscriptions
               reply == handlers[h].reply
           IN  /\ handlers[h].pc = "replying"
               /\ subs = <<>> => reply = ReplyOf("list_empty")
               /\ subs # <<>>
                    => /\ reply.kind = "list"
                       /\ Len(reply.blocks) = Len(subs)
                       /\ reply.total = Len(subs)
                       /\ \A i \in 1..Len(subs) :
                            /\ reply.blocks[i].idx = i
                            /\ reply.blocks[i].id = subs[i].id

\* A listing of two records whose identifiers (7, 3) run against their
\* positions.
C17_Witness ==
    \E h \in Handlers :
        /\ Listed(h)
        /\ Len(handlers[h].subscriptions) = 2
        /\ handlers[h].subscriptions[1].id > handlers[h].subscriptions[2].id
        /\ handlers[h].reply.kind = "list"
        /\ handlers[h].reply.blocks[2].idx = 2

(***************************************************************************)
(* validate_url and extract_channel_name, checked under SpecUrl.           *)
(***************************************************************************)
UrlMrBeast == <<"h", "t", "t", "p", "s", ":", "/", "/", "w", "w", "w", ".",
    "y", "o", "u", "t", "u", "b", "e", ".", "c", "o", "m",
    "/">> \o <<"@">> \o <<"M", "r", "B", "e", "a", "s", "t">>

UrlShroud == <<"h", "t", "t", "p", "s", ":", "/", "/", "w", "w", "w", ".",
    "t", "w", "i", "t", "c", "h", ".", "t", "v", "/", "s", "h", "r", "o",
    "u", "d">>

\* What follows the first occurrence of sep in s.
After(s, sep) == Drop(s, Find(s, sep) + Len(sep) - 1)

\* C18: extract_channel_name gives "@MrBeast" for the YouTube example and
\* "shroud" for the Twitch example; for a URL that contains "@" it gives
\* "@" and all that follows the first "@", else for a URL that contains
\* "/tv/" what follows it, else the URL.
C18_DisplayName ==
    channel.applied = "extract_channel_name"
    => /\ channel.url = UrlMrBeast
            => channel.name = <<"@">> \o <<"M", "r", "B", "e", "a", "s", "t">>
       /\ channel.url = UrlShroud => channel.name = <<"s", "h", "r", "o",
           "u", "d">>
       /\ channel.name =
            IF Find(channel.url, <<"@">>) # 0
            THEN <<"@">> \o After(channel.url, <<"@">>)
            ELSE IF Find(channel.url, <<"/", "t", "v", "/">>) # 0
            THEN After(channel.url, <<"/", "t", "v", "/">>)
            ELSE channel.url

\* A handle: one or more letters, digits, underscores or hyphens.
IsHandle(h) == h # <<>> /\ Range(h) \subseteq WordChars \cup {"-"}

\* url is http:// or https://, an optional www., youtube.com/@ or
\* twitch.tv/, and a handle.
HasChannelShape(url) ==
    \E s \in {<<"h", "t", "t", "p", ":", "/", "/">>, <<"h", "t", "t", "p",
        "s", ":", "/", "/">>}, w \in {<<>>, <<"w", "w", "w", ".">>},
       host \in {<<"y", "o", "u", "t", "u", "b", "e", ".", "c", "o", "m",
           "/">> \o <<"@">>, <<"t", "w", "i", "t", "c", "h", ".", "t", "v",
           "/">>} :
        /\ StartsWith(url, s \o w \o host)
        /\ IsHandle(Drop(url, Len(s \o w \o host)))

\* C19: validate_url accepts a URL exactly when it has one of the two
\* shapes; it accepts the MrBeast and the shroud URL and rejects the
\* /channel/ URL and the ftp URL.
C19_ValidateUrlShapes ==
    channel.applied = "validate_url"
    => /\ channel.valid <=> HasChannelShape(channel.url)
       /\ channel.url \in {UrlMrBeast, UrlShroud} => channel.valid
       /\ channel.url \in {<<"h", "t", "t", "p", "s", ":", "/", "/", "y",
           "o", "u", "t", "u", "b", "e", ".", "c", "o", "m", "/", "c", "h",
           "a", "n", "n", "e", "l", "/", "U", "C", "x", "x", "x", "x">>,
                           <<"f", "t", "p", ":", "/", "/", "t", "w", "i",
                               "t", "c", "h", ".", "t", "v", "/", "s", "h",
                               "r", "o", "u", "d">>}
            => ~channel.valid

\* The Twitch example has been accepted.
C19_Witness ==
    /\ channel.applied = "validate_url"
    /\ channel.url = UrlShroud
    /\ channel.valid

(***************************************************************************)
(* The course of one invocation.                                           *)
(***************************************************************************)
\* How far an invocation has come: resolving its identity, calling the
\* backend, rendering.
Stage(slot) ==
    CASE slot.pc = "idle" -> 0
      [] slot.pc = "registering" -> 1
      [] slot.pc = "calling" -> 2
      [] slot.pc = "replying" -> 3

\* C20: an invocation of /add, /list or /remove issues at most one
\* registration call and at most one subscription call; the subscription
\* call is in flight only with an account from the cache or from a
\* registration that returned; a call that failed is followed by the reply
\* and by nothing else; every step of an invocation moves it forward
\* (resolve, call, render) or ends it.
C20_LinearNoRetry ==
    /\ [](\A h \in Handlers :
            LET slot == handlers[h]
            IN  /\ slot.reg <= 1
                /\ slot.sub <= 1
                /\ slot.sub = 1 => slot.account # PyNone
                /\ slot.pc = "calling"
                    => \/ slot.reg = 0 /\ slot.call = NoCall
                       \/ /\ slot.reg = 1
                          /\ slot.call.op = "register_user"
                          /\ slot.call.ok
                /\ (slot.call.op = "register_user" /\ ~slot.call.ok)
                    => slot.sub = 0
                /\ ~slot.call.ok => slot.pc = "replying")
    /\ [][\A h \in Handlers :
            handlers'[h] # handlers[h]
            => \/ handlers'[h] = Idle
               \/ /\ Stage(handlers'[h]) > Stage(handlers[h])
                  /\ handlers'[h].reg >= handlers[h].reg
                  /\ handlers'[h].sub >= handlers[h].sub]_vars

\* An invocation registered, issued its subscription call, and that call
\* failed: it is replying, with one call of each kind behind it.
C20_Witness ==
    \E h \in Handlers :
        /\ handlers[h].pc = "replying"
        /\ handlers[h].reg = 1
        /\ handlers[h].sub = 1
        /\ handlers[h].call.op = "add_subscription"
        /\ ~handlers[h].call.ok

(***************************************************************************)
(* Every invocation ends in one reply.                                     *)
(***************************************************************************)
\* Handler h is past validation on a message without a sender.
NoSender(h) ==
    /\ handlers[h].pc # "idle"
    /\ handlers[h].user = NoUser
    /\ ~RejectedAdd(handlers[h])
    /\ ~RejectedRemove(handlers[h])

C22_RelayAlwaysResponds ==
    Relayed
    => /\ relay.response.raised = ""
       /\ relay.response.status \in {200, 400, 403, 500}

(***************************************************************************)
(* A registration that fails.                                              *)
(***************************************************************************)
\* The registration call of slot got an error status, no response, or a
\* response without an account identifier.
RegistrationFailed(slot) ==
    /\ slot.call.op = "register_user"
    /\ \/ slot.call.kind # "http"
       \/ slot.call.status >= 400
       \/ ~Truthy(DictGet(slot.call.accountId))

\* C23: when the registration made to resolve e fails (an error status, a
\* network failure, a 2xx response without accountId) register_user raises
\* CoreAPIError, the step leaves user_accounts as it was with no entry for
\* e, the command issues no subscription call and replies; the next
\* command of e that needs the account registers again.
C23_FailedRegistration ==
    /\ [](\A h \in Handlers :
            RegistrationFailed(handlers[h])
            => /\ ~handlers[h].call.ok
               /\ handlers[h].pc = "replying"
               /\ handlers[h].sub = 0
               /\ handlers[h].account = PyNone
               /\ handlers[h].user \notin DOMAIN user_accounts)
    /\ [][\A h \in Handlers :
            /\ (handlers'[h] # handlers[h] /\ RegistrationFailed(handlers'[h]))
                => user_accounts' = user_accounts
            /\ (/\ handlers[h].pc = "idle"
                /\ handlers'[h].pc \in {"registering", "calling"}
                /\ handlers'[h].user \in Users
                /\ regCalls[handlers'[h].user] > 0
                /\ handlers'[h].user \notin DOMAIN user_accounts)
                => /\ handlers'[h].pc = "registering"
                   /\ regCalls'[handlers'[h].user]
                        = regCalls[handlers'[h].user] + 1]_vars

\* The first registration for e failed on a 2xx response without
\* accountId, and a later command of e is registering again.
C23_Witness ==
    \E h \in Handlers :
        /\ handlers[h].pc = "registering"
        /\ regCalls[handlers[h].user] = 2
        /\ regOk[handlers[h].user] = 0

(***************************************************************************)
(* Which call an operation-specific error reply belongs to.                *)
(***************************************************************************)
\* C24: /add answers "already subscribed" only when this invocation issued
\* an addSubscription call and it was answered 409, and /remove answers
\* "not found" only when this invocation issued a deleteSubscription call
\* and it was answered 404; a 409 or 404 answered to the registration call
\* produces neither reply.
C24_RepliesOfTheOperation ==
    \A h \in Handlers :
        /\ handlers[h].reply.kind = "already_subscribed"
            => /\ handlers[h].sub = 1
               /\ handlers[h].call.op = "add_subscription"
               /\ handlers[h].call.status = 409
        /\ handlers[h].reply.kind = "not_found"
            => /\ handlers[h].sub = 1
               /\ handlers[h].call.op = "delete_subscription"
               /\ handlers[h].call.status = 404

(***************************************************************************)
(* Accounts and users.                                                     *)
(***************************************************************************)
\* C25: under any interleaving of handlers of any users, the account a
\* handler passes to add_subscription, get_subscriptions or
\* delete_subscription for a command of user e, and the account cached for
\* e, is one that register_user returned from a call made for e.
C25_AccountIsolation ==
    /\ \A h \in Handlers :
        handlers[h].sub = 1
        => /\ handlers[h].user \in Users
           /\ handlers[h].account \in returned[handlers[h].user]
    /\ \A e \in DOMAIN user_accounts :
        e \in Users /\ user_accounts[e] \in returned[e]

\* Two users hold different accounts, and handlers of both have their
\* subscription call in flight at once, each with its own user's account.
C25_Witness ==
    \E h1, h2 \in Handlers :
        /\ handlers[h1].pc = "calling"
        /\ handlers[h2].pc = "calling"
        /\ handlers[h1].user # handlers[h2].user
        /\ handlers[h1].account # handlers[h2].account
        /\ handlers[h2].account \notin returned[handlers[h1].user]

(***************************************************************************)
(* The frame of the identity cache, checked under SpecGateway.             *)
(***************************************************************************)
\* The entry of the cache at key k, if there is one.
Entry(cache, k) == IF k \in DOMAIN cache THEN Some(cache[k]) ELSE NoValue

\* The keys at which this step changes the cache.
ChangedKeys ==
    {k \in DOMAIN user_accounts \cup DOMAIN user_accounts' :
        Entry(user_accounts', k) # Entry(user_accounts, k)}

\* C26: a step changes user_accounts only as a step of a handler of /add,
\* /list or /remove, and then at no key but the user of that handler's
\* command; steps of the relay endpoint, of the health probe and of /start
\* and /help leave user_accounts and every handler of a command as they
\* were; the response to a relay request is what handle_notification makes
\* of the secret, the header, the body and the transport alone, whatever
\* the cache holds and whatever commands are in flight.
C26_CacheFrame ==
    [][/\ ChangedKeys # {}
            => \E h \in Handlers :
                /\ handlers'[h] # handlers[h]
                /\ handlers[h].kind \in {"add", "list", "remove"}
                /\ ChangedKeys = {handlers[h].user}
       /\ relay' # relay
            => /\ user_accounts' = user_accounts
               /\ handlers' = handlers
       /\ \A h \in Handlers :
            (/\ handlers'[h] # handlers[h]
             /\ handlers[h].kind \in {"start", "help"}
                \/ handlers'[h].kind \in {"start", "help"})
            => user_accounts' = user_accounts
       /\ (relay' # relay /\ relay'.route = "/internal/send")
            => relay'.response =
                 handle_notification(internal_service_key,
                    relay'.auth_header, relay'.body, relay'.outcome)
       /\ (relay' # relay /\ relay'.route = "/health")
            => relay'.response = health_check]_vars

\* A relay request has been answered 200 while one user's account is cached
\* and a command of the other user is registering.
C26_Witness ==
    /\ relay.route = "/internal/send"
    /\ relay.response.status = 200
    /\ \E h \in Handlers :
        /\ handlers[h].pc = "registering"
        /\ handlers[h].user \notin DOMAIN user_accounts
        /\ user_accounts # <<>>

=============================================================================
